---- MODULE Spec2Model ----
(***************************************************************************)
(* A model of pytest_prometheus/__init__.py: the PrometheusReport plugin.  *)
(* Python strings that are sanitized or compared character by character    *)
(* (test names, metric names, the prefix) are sequences of one-character   *)
(* strings; enumerated values (report.when, report.outcome, the status of  *)
(* a record) are TLA+ strings, with "None" for Python's None and "noattr"  *)
(* for an attribute the report object does not have.                       *)
(***************************************************************************)
EXTENDS Naturals, Sequences, FiniteSets, TLC

VARIABLES
    options,       \* config.getoption(...): the command-line options of the run
    lifecycle,     \* "initial", "configured" (pytest_configure ran) or "unconfigured"
    registered,    \* TRUE while a PrometheusReport is registered with the plugin manager
    config_prometheus, \* TRUE while config has the attribute _prometheus
    prefix,        \* self.prefix
    extra_labels,  \* self.extra_labels
    test_results,  \* self.test_results: an insertion-ordered dict, as a sequence of entries
    registry,      \* self.registry: metric name -> (label set -> value of the series)
    session,       \* "running" until pytest_sessionfinish has run, then "finished"
    groups,        \* the lists total/passed/failed/skipped built by pytest_sessionfinish
    pushes,        \* number of calls of push_to_gateway that were made
    series_errors, \* the <<metric, test>> pairs whose series raised in pytest_sessionfinish
    raised,        \* TRUE when an exception has escaped a hook
    caught,        \* the exception the last hook call caught and logged, "none" if none
    called,        \* the hook called last: "none", "configure", "logreport",
                   \* "sessionfinish" or "unconfigure"
    report,        \* history: the report of the last pytest_runtest_logreport call
    before,        \* history: test_results as it was before the last hook call
    seen,          \* history: the identities of the reports that had a resolvable location
    raw_seen,      \* history: the raw function names of those reports
    first_final,   \* history: per identity, the outcome of its earliest call:passed,
                   \*          call:failed or setup:failed report, None while there is none
    skip_seen,     \* history: the identities that received a setup:skipped report
    arg,           \* the name handed to the last call of _make_metric_name checked alone
    made           \* what that call returned

\* Bound on the number of series whose construction raises in one run.
MaxSeriesFaults == 1

vars == <<options, lifecycle, registered, config_prometheus,
          prefix, extra_labels, test_results, registry, session, groups, pushes,
          series_errors, raised, caught, called, report, before,
          seen, raw_seen, first_final, skip_seen, arg, made>>

----------------------------------------------------------------------------
\* Characters and strings

Letters ==
    {"a","b","c","d","e","f","g","h","i","j","k","l","m",
     "n","o","p","q","r","s","t","u","v","w","x","y","z",
     "A","B","C","D","E","F","G","H","I","J","K","L","M",
     "N","O","P","Q","R","S","T","U","V","W","X","Y","Z"}

Digits == {"0","1","2","3","4","5","6","7","8","9"}

\* The complement of the pattern [^a-zA-Z0-9_] (line 63).
WordChars == Letters \cup Digits \cup {"_"}

\* A mutant of ReSub: only the dots are replaced.
ReSub_DotOnly(s) == [i \in 1..Len(s) |-> IF s[i] = "." THEN "_" ELSE s[i]]

\* re.sub(r'[^a-zA-Z0-9_]', '_', s)
ReSub(s) == [i \in 1..Len(s) |-> IF s[i] \in WordChars THEN s[i] ELSE "_"]

\* A mutant of make_metric_name: the name is not sanitized.
make_metric_name_Raw(pfx, name) == pfx \o name

\* PrometheusReport._make_metric_name
make_metric_name(pfx, name) == ReSub(pfx \o name)

----------------------------------------------------------------------------
\* Reports

None == "None"
NoAttr == "noattr"

Whens == {"setup", "call", "teardown"}
Outcomes == {"passed", "failed", "skipped", "error"}

\* Raw function names (report.location[2]); the first two differ only in
\* characters that sanitization replaces.
FuncNames == {<<"t", "[", "1">>, <<"t", "-", "1">>, <<"u">>}

Prefixes == {<<"p", ".">>}

\* A report without a location attribute.
NoLocation ==
    [located |-> FALSE, indexable |-> FALSE, funcname |-> <<>>,
     when |-> NoAttr, outcome |-> NoAttr]

\* A report whose location has no element 2 (location[2] raises).
BadLocation ==
    [located |-> TRUE, indexable |-> FALSE, funcname |-> <<>>,
     when |-> NoAttr, outcome |-> NoAttr]

\* Reports with a resolvable location; when or outcome may be absent.
LocatedReports ==
    {[located |-> TRUE, indexable |-> TRUE, funcname |-> f, when |-> w, outcome |-> o] :
        f \in FuncNames, w \in Whens, o \in Outcomes \cup {NoAttr}}
    \cup
    {[located |-> TRUE, indexable |-> TRUE, funcname |-> f, when |-> NoAttr, outcome |-> NoAttr] :
        f \in FuncNames}

Reports == {NoLocation, BadLocation} \cup LocatedReports

----------------------------------------------------------------------------
\* The test_results dict

Keys(results) == [i \in 1..Len(results) |-> results[i].name]

KeySet(results) == {results[i].name : i \in 1..Len(results)}

IndexOf(results, name) == CHOOSE i \in 1..Len(results) : results[i].name = name

\* results[name]['status']
StatusOf(results, name) == results[IndexOf(results, name)].status

\* results[name]['status'] = status
SetStatus(results, name, status) ==
    [results EXCEPT ![IndexOf(results, name)].status = status]

\* A mutant of Touch: a new record replaces the records of the other names.
Touch_Clear(results, name) ==
    IF name \in KeySet(results)
    THEN results
    ELSE <<[name |-> name, status |-> None, phase |-> None]>>

\* Lines 83-84: the record is created on the first event of a name.
Touch(results, name) ==
    IF name \in KeySet(results)
    THEN results
    ELSE Append(results, [name |-> name, status |-> None, phase |-> None])

----------------------------------------------------------------------------
\* Extra labels (PrometheusReport.__init__, lines 45-53)

TESTNAME == <<"t", "e", "s", "t", "n", "a", "m", "e">>

\* The value lists of --prometheus-extra-label the run may be started with
\* (besides none): the second one makes a label name Gauge() rejects.
ExtraLabelOptions ==
    { << <<"e", "=", "c">>, <<"b", "a", "d">>, TESTNAME \o <<"=", "x">> >>,
      << <<"-", "=", "c">> >> }

RECURSIVE FirstEq(_, _)
\* Index of the first '=' of s at or after i, 0 when there is none.
FirstEq(s, i) ==
    IF i > Len(s) THEN 0
    ELSE IF s[i] = "=" THEN i
    ELSE FirstEq(s, i + 1)

\* d[k] = v on a dict
Put(d, k, v) == [x \in (DOMAIN d) \cup {k} |-> IF x = k THEN v ELSE d[x]]

RECURSIVE ParseLabels_FirstWins(_, _)
\* A mutant of ParseLabels: a key that is already stored keeps its value.
ParseLabels_FirstWins(tokens, acc) ==
    IF tokens = <<>> THEN acc
    ELSE LET label == Head(tokens)
             eq == FirstEq(label, 1)
         IN  IF eq = 0 \/ SubSeq(label, 1, eq - 1) \in DOMAIN acc
             THEN ParseLabels_FirstWins(Tail(tokens), acc)
             ELSE ParseLabels_FirstWins(Tail(tokens),
                                        Put(acc, SubSeq(label, 1, eq - 1),
                                                 SubSeq(label, eq + 1, Len(label))))

RECURSIVE ParseLabels(_, _)
\* Lines 47-53: label.split('=', 1) of every token, the ValueError of a
\* token without '=' caught and the token skipped.
ParseLabels(tokens, acc) ==
    IF tokens = <<>> THEN acc
    ELSE LET label == Head(tokens)
             eq == FirstEq(label, 1)
         IN  IF eq = 0
             THEN ParseLabels(Tail(tokens), acc)
             ELSE ParseLabels(Tail(tokens),
                              Put(acc, SubSeq(label, 1, eq - 1),
                                       SubSeq(label, eq + 1, Len(label))))

\* A mutant of make_labels: the test name does not replace a user label
\* of the same key.
make_labels_UserWins(extra, testname) ==
    IF TESTNAME \in DOMAIN extra THEN extra ELSE Put(extra, TESTNAME, testname)

\* PrometheusReport._make_labels
make_labels(extra, testname) == Put(extra, TESTNAME, testname)

\* PrometheusReport._get_label_names (as a set: the order of the keys)
get_label_names(extra) == DOMAIN make_labels(extra, <<>>)

----------------------------------------------------------------------------
\* The options and pytest_configure (lines 5-28)

\* An option that was not given: getoption returns None.
Unset == [given |-> FALSE, value |-> <<>>]

Given(v) == [given |-> TRUE, value |-> v]

\* Python truth of an option value: None and the empty string or list are false.
Truthy(o) == o.given /\ o.value # <<>>

\* config.getoption('prometheus_extra_label') or [] (line 46)
OrEmpty(o) == IF Truthy(o) THEN o.value ELSE <<>>

Urls == {<<"h">>}

\* The command lines of the model.
OptionSets ==
    [url : {Unset, Given(<<>>)} \cup {Given(u) : u \in Urls},
     prefix : {Unset, Given(<<>>)} \cup {Given(p) : p \in Prefixes},
     extra_label : {Unset} \cup {Given(t) : t \in ExtraLabelOptions}]

\* A mutant of Enabled: the prefix alone enables the reporter.
Enabled_PrefixOnly(o) == Truthy(o.prefix)

\* A mutant of Enabled: the URL alone enables the reporter.
Enabled_UrlOnly(o) == Truthy(o.url)

\* Line 26: the condition under which the reporter is constructed.
Enabled(o) == Truthy(o.url) /\ Truthy(o.prefix)

----------------------------------------------------------------------------
\* pytest_runtest_logreport (lines 75-104)

\* A mutant of Final: only a failure is final.
Final_OnlyFailed(current) == current = "failed"

\* A mutant of Final: a skip is final too.
Final_WithSkipped(current) == current \in {"failed", "passed", "skipped"}

\* Line 88: current_status in ('failed', 'passed')
Final(current) == current \in {"failed", "passed"}

\* Lines 92-101: an attribute the comparisons read is missing, so the
\* access raises AttributeError. report.outcome is read only in the call
\* and setup branches.
Raises(when, outcome) ==
    \/ when = NoAttr
    \/ when \in {"call", "setup"} /\ outcome = NoAttr

\* A mutant of Record: a failed setup is not recorded.
Record_CallOnly(current, when, outcome) ==
    IF when = "call"
    THEN IF outcome = "passed" THEN "passed"
         ELSE IF outcome = "failed" THEN "failed"
         ELSE current
    ELSE IF when = "setup"
    THEN IF outcome = "skipped" THEN "skipped" ELSE current
    ELSE current

\* A mutant of Record: a skipped setup is recorded as failed.
Record_SkipFails(current, when, outcome) ==
    IF when = "call"
    THEN IF outcome = "passed" THEN "passed"
         ELSE IF outcome = "failed" THEN "failed"
         ELSE current
    ELSE IF when = "setup"
    THEN IF outcome \in {"skipped", "failed"} THEN "failed" ELSE current
    ELSE current

\* A mutant of Record: the phase is not looked at.
Record_AnyPhase(current, when, outcome) ==
    IF outcome \in {"passed", "failed", "skipped"} THEN outcome ELSE current

\* Lines 92-101: the status the if chain leaves in the record.
Record(current, when, outcome) ==
    IF when = "call"
    THEN IF outcome = "passed" THEN "passed"
         ELSE IF outcome = "failed" THEN "failed"
         ELSE current
    ELSE IF when = "setup"
    THEN IF outcome = "skipped" THEN "skipped"
         ELSE IF outcome = "failed" THEN "failed"
         ELSE current
    ELSE current

\* A mutant of Exception: location is read without the hasattr test.
Exception_NoHasattr(results, pfx, rep) ==
    IF ~rep.located THEN "AttributeError"
    ELSE IF ~rep.indexable THEN "IndexError"
    ELSE LET name == make_metric_name(pfx, rep.funcname)
             current == StatusOf(Touch(results, name), name)
         IN  IF Final(current) THEN "none"
             ELSE IF Raises(rep.when, rep.outcome) THEN "AttributeError"
             ELSE "none"

\* Lines 76-101: the exception the body of the try raises, "none" when it
\* returns.
Exception(results, pfx, rep) ==
    IF ~rep.located THEN "none"
    ELSE IF ~rep.indexable THEN "IndexError"
    ELSE LET name == make_metric_name(pfx, rep.funcname)
             current == StatusOf(Touch(results, name), name)
         IN  IF Final(current) THEN "none"
             ELSE IF Raises(rep.when, rep.outcome) THEN "AttributeError"
             ELSE "none"

\* Lines 76-101: test_results when the body of the try has returned or raised.
Reduce(results, pfx, rep) ==
    IF ~rep.located \/ ~rep.indexable THEN results
    ELSE LET name == make_metric_name(pfx, rep.funcname)
             touched == Touch(results, name)
             current == StatusOf(touched, name)
         IN  IF Final(current) \/ Raises(rep.when, rep.outcome)
             THEN touched
             ELSE SetStatus(touched, name, Record(current, rep.when, rep.outcome))

\* A mutant of Caught: only ValueError is handled.
Caught_OnlyValueError(exc) == exc = "ValueError"

\* Lines 103 and 152: except Exception catches these.
Caught(exc) == exc \in {"IndexError", "AttributeError", "ValueError", "OSError"}

\* The test identity of a raw function name as the data model states it:
\* prefix + name with every character outside [A-Za-z0-9_] replaced by '_'.
\* The history variables are keyed by it.
TestIdentity(pfx, raw) ==
    LET s == pfx \o raw
    IN  [i \in 1..Len(s) |->
            IF s[i] \in Letters \/ s[i] \in Digits \/ s[i] = "_" THEN s[i] ELSE "_"]

\* The three kinds of report whose outcome ends a test.
Ends(when, outcome) ==
    \/ when = "call" /\ outcome \in {"passed", "failed"}
    \/ when = "setup" /\ outcome = "failed"

pytest_runtest_logreport(rep) ==
    /\ registered
    /\ session = "running"
    /\ called' = "logreport"
    /\ report' = rep
    /\ before' = test_results
    /\ test_results' = Reduce(test_results, prefix, rep)
    /\ LET exc == Exception(test_results, prefix, rep)
       IN  /\ caught' = IF Caught(exc) THEN exc ELSE "none"
           /\ raised' = (raised \/ (exc # "none" /\ ~Caught(exc)))
    /\ IF rep.located /\ rep.indexable
       THEN LET id == TestIdentity(prefix, rep.funcname)
                was == IF id \in seen THEN first_final[id] ELSE None
            IN  /\ seen' = seen \cup {id}
                /\ raw_seen' = raw_seen \cup {rep.funcname}
                /\ first_final' = Put(first_final, id,
                        IF was = None /\ Ends(rep.when, rep.outcome)
                        THEN rep.outcome ELSE was)
                /\ skip_seen' = IF rep.when = "setup" /\ rep.outcome = "skipped"
                                THEN skip_seen \cup {id} ELSE skip_seen
       ELSE UNCHANGED <<seen, raw_seen, first_final, skip_seen>>
    /\ UNCHANGED <<options, lifecycle, registered, config_prometheus,
                   prefix, extra_labels, session, groups, registry, pushes,
                   series_errors, arg, made>>

----------------------------------------------------------------------------
\* pytest_sessionfinish (lines 106-153)

\* Lines 115-122: the names whose status is the given one, in dict order.
Select(results, status) ==
    LET Test(e) == e.status = status
    IN  Keys(SelectSeq(results, Test))

\* A mutant of BuildGroups: total holds only the tests that have a status.
BuildGroups_TotalWithStatus(results) ==
    [total   |-> Select(results, "passed") \o Select(results, "failed")
                    \o Select(results, "skipped"),
     passed  |-> Select(results, "passed"),
     failed  |-> Select(results, "failed"),
     skipped |-> Select(results, "skipped")]

\* Lines 109-122
BuildGroups(results) ==
    [total   |-> Keys(results),
     passed  |-> Select(results, "passed"),
     failed  |-> Select(results, "failed"),
     skipped |-> Select(results, "skipped")]

MetricNames == [total   |-> <<"t", "o", "t", "a", "l">>,
                passed  |-> <<"p", "a", "s", "s", "e", "d">>,
                failed  |-> <<"f", "a", "i", "l", "e", "d">>,
                skipped |-> <<"s", "k", "i", "p", "p", "e", "d">>]

\* Lines 135-140: Gauge(...) raises ValueError for a label name that is not
\* [a-zA-Z_][a-zA-Z0-9_]* or that starts with "__".
ValidLabelName(k) ==
    /\ Len(k) > 0
    /\ k[1] \in Letters \cup {"_"}
    /\ \A i \in 1..Len(k) : k[i] \in WordChars
    /\ ~(Len(k) >= 2 /\ k[1] = "_" /\ k[2] = "_")

GaugeRaises(label_names) == \E k \in label_names : ~ValidLabelName(k)

\* A mutant of Series: the loop ends at the first call that raises.
Series_StopAtFault(extra, test_list, bad) ==
    LET done == {i \in 1..Len(test_list) : \A j \in bad : i < j}
        built == {make_labels(extra, test_list[i]) : i \in done}
    IN  [l \in built |->
            Cardinality({i \in done : make_labels(extra, test_list[i]) = l})]

\* A mutant of Series: every series is given the size of the list.
Series_CountAll(extra, test_list, bad) ==
    LET done == {i \in 1..Len(test_list) : i \notin bad}
        built == {make_labels(extra, test_list[i]) : i \in done}
    IN  [l \in built |-> Len(test_list)]

\* Lines 142-147: one series per label set of the list, incremented once
\* for every member of the list that has these labels. bad holds the
\* positions of the list at which gauge.labels(**labels).inc() raises: the
\* exception is caught in the loop (lines 146-147) and the loop goes on.
Series(extra, test_list, bad) ==
    LET done == {i \in 1..Len(test_list) : i \notin bad}
        built == {make_labels(extra, test_list[i]) : i \in done}
    IN  [l \in built |->
            Cardinality({i \in done : make_labels(extra, test_list[i]) = l})]

\* Lines 134-147: the four gauges, registered under their sanitized names.
\* faults holds the <<metric, position>> pairs whose series raises.
BuildRegistry(pfx, extra, gs, faults) ==
    LET names == {make_metric_name(pfx, MetricNames[g]) : g \in DOMAIN MetricNames}
        GroupOf(n) == CHOOSE g \in DOMAIN MetricNames : make_metric_name(pfx, MetricNames[g]) = n
    IN  [n \in names |->
            Series(extra, gs[GroupOf(n)],
                   {i \in 1..Len(gs[GroupOf(n)]) : <<GroupOf(n), i>> \in faults})]

\* The <<metric, position>> pairs of the lists: the calls of
\* gauge.labels(**labels).inc() of a run of lines 134-147.
SeriesCalls(gs) ==
    UNION {{<<g, i>> : i \in 1..Len(gs[g])} : g \in DOMAIN MetricNames}

\* The sets of calls that may raise in one run.
SeriesFaults(gs) ==
    {f \in SUBSET SeriesCalls(gs) : Cardinality(f) <= MaxSeriesFaults}

pytest_sessionfinish(pushOK, faults) ==
    /\ registered
    /\ session = "running"
    /\ session' = "finished"
    /\ called' = "sessionfinish"
    /\ before' = test_results
    /\ groups' = BuildGroups(test_results)
    /\ IF GaugeRaises(get_label_names(extra_labels))
       THEN /\ faults = {}
            /\ UNCHANGED <<registry, pushes, series_errors>>
            /\ caught' = IF Caught("ValueError") THEN "ValueError" ELSE "none"
            /\ raised' = (raised \/ ~Caught("ValueError"))
       ELSE /\ faults \in SeriesFaults(groups')
            /\ registry' = BuildRegistry(prefix, extra_labels, groups', faults)
            /\ series_errors' = {<<c[1], groups'[c[1]][c[2]]>> : c \in faults}
            /\ pushes' = pushes + 1
            /\ caught' = IF ~pushOK /\ Caught("OSError") THEN "OSError" ELSE "none"
            /\ raised' = (raised \/ (~pushOK /\ ~Caught("OSError")))
    /\ UNCHANGED <<options, lifecycle, registered, config_prometheus,
                   prefix, extra_labels, test_results, report,
                   seen, raw_seen, first_final, skip_seen, arg, made>>

----------------------------------------------------------------------------
\* The run

EmptyGroups == [total |-> <<>>, passed |-> <<>>, failed |-> <<>>, skipped |-> <<>>]

\* The run once pytest_configure has constructed and registered the
\* reporter (lines 25-28 and 39-59), before the first hook call.
Init ==
    /\ options \in {o \in OptionSets : Enabled(o)}
    /\ lifecycle = "configured"
    /\ registered = TRUE
    /\ config_prometheus = TRUE
    /\ prefix = options.prefix.value
    /\ extra_labels = ParseLabels(OrEmpty(options.extra_label), <<>>)
    /\ series_errors = {}
    /\ test_results = <<>>
    /\ registry = <<>>
    /\ session = "running"
    /\ groups = EmptyGroups
    /\ pushes = 0
    /\ raised = FALSE
    /\ caught = "none"
    /\ called = "none"
    /\ report = NoLocation
    /\ before = <<>>
    /\ seen = {}
    /\ raw_seen = {}
    /\ first_final = <<>>
    /\ skip_seen = {}
    /\ arg = <<>>
    /\ made = <<>>

Next ==
    \/ \E rep \in Reports : pytest_runtest_logreport(rep)
    \/ \E pushOK \in BOOLEAN, faults \in SeriesFaults(BuildGroups(test_results)) :
            pytest_sessionfinish(pushOK, faults)

Spec == Init /\ [][Next]_vars

----------------------------------------------------------------------------
\* The plugin from pytest_configure to pytest_unconfigure (lines 25-35)

\* Nothing was constructed yet and no hook was called.
Fresh ==
    /\ lifecycle = "initial"
    /\ registered = FALSE
    /\ config_prometheus = FALSE
    /\ prefix = <<>>
    /\ extra_labels = <<>>
    /\ series_errors = {}
    /\ test_results = <<>>
    /\ registry = <<>>
    /\ session = "running"
    /\ groups = EmptyGroups
    /\ pushes = 0
    /\ raised = FALSE
    /\ caught = "none"
    /\ called = "none"
    /\ report = NoLocation
    /\ before = <<>>
    /\ seen = {}
    /\ raw_seen = {}
    /\ first_final = <<>>
    /\ skip_seen = {}
    /\ arg = <<>>
    /\ made = <<>>

\* Lines 25-28, with PrometheusReport.__init__ (lines 39-59) when the
\* condition of line 26 holds.
pytest_configure ==
    /\ lifecycle = "initial"
    /\ lifecycle' = "configured"
    /\ called' = "configure"
    /\ IF Enabled(options)
       THEN /\ config_prometheus' = TRUE
            /\ registered' = TRUE
            /\ prefix' = options.prefix.value
            /\ extra_labels' = ParseLabels(OrEmpty(options.extra_label), <<>>)
       ELSE UNCHANGED <<config_prometheus, registered, prefix, extra_labels>>
    /\ UNCHANGED <<options, test_results, registry, session, groups, pushes,
                   series_errors, raised, caught, report, before,
                   seen, raw_seen, first_final, skip_seen, arg, made>>

\* The test run of a configuration that registered no reporter: the hooks
\* of the run reach no PrometheusReport.
session_without_reporter ==
    /\ lifecycle = "configured"
    /\ ~registered
    /\ session = "running"
    /\ session' = "finished"
    /\ UNCHANGED <<options, lifecycle, registered, config_prometheus,
                   prefix, extra_labels, test_results, registry, groups, pushes,
                   series_errors, raised, caught, called, report, before,
                   seen, raw_seen, first_final, skip_seen, arg, made>>

\* Lines 30-35. pytest calls it last: after pytest_sessionfinish, or right
\* after pytest_configure when no session was run.
pytest_unconfigure ==
    /\ lifecycle = "configured"
    /\ session = "finished" \/ called = "configure"
    /\ lifecycle' = "unconfigured"
    /\ called' = "unconfigure"
    /\ IF config_prometheus
       THEN /\ config_prometheus' = FALSE
            /\ registered' = FALSE
       ELSE UNCHANGED <<config_prometheus, registered>>
    /\ UNCHANGED <<options, prefix, extra_labels, test_results, registry, session,
                   groups, pushes, series_errors, raised, caught, report, before,
                   seen, raw_seen, first_final, skip_seen, arg, made>>

\* The command lines of the plugin's runs: extra labels play no part in
\* lines 25-35, so the runs that register a reporter are given none.
InitPlugin ==
    /\ options \in {o \in OptionSets : Enabled(o) => ~o.extra_label.given}
    /\ Fresh

NextPlugin ==
    \/ pytest_configure
    \/ \E rep \in Reports : pytest_runtest_logreport(rep)
    \/ \E pushOK \in BOOLEAN, faults \in SeriesFaults(BuildGroups(test_results)) :
            pytest_sessionfinish(pushOK, faults)
    \/ session_without_reporter
    \/ pytest_unconfigure

SpecPlugin == InitPlugin /\ [][NextPlugin]_vars

----------------------------------------------------------------------------
\* PrometheusReport.__init__ on lists of extra-label tokens (lines 45-53)

\* Bound on the number of --prometheus-extra-label options of a command line.
MaxTokens == 2

Tokens ==
    { <<"e", "=", "c">>, <<"e", "=", "d">>, <<"b", "a", "d">>,
      <<"a", "=", "b", "=", "c">>, <<"=", "v">>, <<"k", "=">>,
      TESTNAME \o <<"=", "x">> }

RECURSIVE TokenLists(_)
\* The lists of at most n tokens.
TokenLists(n) ==
    IF n = 0 THEN {<<>>}
    ELSE TokenLists(n - 1) \cup
         {Append(l, t) : l \in {m \in TokenLists(n - 1) : Len(m) = n - 1}, t \in Tokens}

InitLabels ==
    /\ options \in
          [url : {Given(u) : u \in Urls},
           prefix : {Given(p) : p \in Prefixes},
           extra_label : {Unset} \cup {Given(l) : l \in TokenLists(MaxTokens) \ {<<>>}}]
    /\ Fresh

NextLabels == pytest_configure

SpecLabels == InitLabels /\ [][NextLabels]_vars

----------------------------------------------------------------------------
\* PrometheusReport._make_metric_name on prefixes and names (lines 61-65)

\* Bound on the length of the names.
MaxNameLen == 2

NameChars == {"a", "Z", "7", "_", ".", "-", " "}

MY_METRIC == <<"m", "y", ".", "m", "e", "t", "r", "i", "c", "-">>

NamePrefixes == Prefixes \cup {MY_METRIC}

RECURSIVE Strings(_)
\* The strings of at most n characters of NameChars.
Strings(n) ==
    IF n = 0 THEN {<<>>}
    ELSE Strings(n - 1) \cup
         {Append(w, c) : w \in {v \in Strings(n - 1) : Len(v) = n - 1}, c \in NameChars}

Names == Strings(MaxNameLen) \cup {MetricNames[g] : g \in DOMAIN MetricNames}

\* A reporter with one of the prefixes, about to sanitize one of the names.
InitNames ==
    /\ options \in
          [url : {Given(u) : u \in Urls},
           prefix : {Given(p) : p \in NamePrefixes},
           extra_label : {Unset}]
    /\ lifecycle = "configured"
    /\ registered = TRUE
    /\ config_prometheus = TRUE
    /\ prefix = options.prefix.value
    /\ extra_labels = <<>>
    /\ series_errors = {}
    /\ test_results = <<>>
    /\ registry = <<>>
    /\ session = "running"
    /\ groups = EmptyGroups
    /\ pushes = 0
    /\ raised = FALSE
    /\ caught = "none"
    /\ called = "none"
    /\ report = NoLocation
    /\ before = <<>>
    /\ seen = {}
    /\ raw_seen = {}
    /\ first_final = <<>>
    /\ skip_seen = {}
    /\ arg \in Names
    /\ made = <<>>

\* self._make_metric_name(arg)
call_make_metric_name ==
    /\ called = "none"
    /\ called' = "make_metric_name"
    /\ made' = make_metric_name(prefix, arg)
    /\ UNCHANGED <<options, lifecycle, registered, config_prometheus,
                   prefix, extra_labels, test_results, registry, session, groups,
                   pushes, series_errors, raised, caught, report, before,
                   seen, raw_seen, first_final, skip_seen, arg>>

NextNames == call_make_metric_name

SpecNames == InitNames /\ [][NextNames]_vars

----------------------------------------------------------------------------
\* Properties of the event reducer

\* The last hook call was pytest_runtest_logreport with a report whose
\* identity resolves.
Delivered == called = "logreport" /\ report.located /\ report.indexable

\* The identity of the last report.
Id == TestIdentity(prefix, report.funcname)

Known(results, id) == \E i \in 1..Len(results) : results[i].name = id

\* The status of id in results, None when it has no record.
Status(results, id) ==
    IF Known(results, id)
    THEN results[CHOOSE i \in 1..Len(results) : results[i].name = id].status
    ELSE None

Identities == {TestIdentity(pfx, f) : pfx \in Prefixes, f \in FuncNames}

\* C1: once the status of a record is 'passed' or 'failed', no step of the
\* run changes it or removes the record.
C1_TerminalStatusKept ==
    [][\A id \in Identities :
          (Known(test_results, id) /\ Status(test_results, id) \in {"passed", "failed"})
          => (Known(test_results', id)
              /\ Status(test_results', id) = Status(test_results, id))]_vars

\* C1: a test that passed in its call phase then got setup:failed, and is
\* still 'passed'.
C1_Witness ==
    /\ Delivered
    /\ report.when = "setup" /\ report.outcome = "failed"
    /\ Status(before, Id) = "passed"
    /\ first_final[Id] = "passed"
    /\ Status(test_results, Id) = "passed"

\* C2: the status of every identity is the outcome of the earliest of its
\* call:passed, call:failed and setup:failed reports; with no such report
\* it is 'skipped' when a setup:skipped report was received and None
\* otherwise.
C2_FirstTerminalWins ==
    \A id \in seen :
        /\ Known(test_results, id)
        /\ Status(test_results, id) =
              IF first_final[id] # None THEN first_final[id]
              ELSE IF id \in skip_seen THEN "skipped"
              ELSE None

\* C2: a test that was skipped in setup, then failed in call, then received
\* call:passed: the first of the two call reports decides.
C2_Witness ==
    /\ Delivered
    /\ report.when = "call" /\ report.outcome = "passed"
    /\ Id \in skip_seen
    /\ first_final[Id] = "failed"
    /\ Status(test_results, Id) = "failed"

\* C3: a report for an identity whose status is 'skipped' sets it to
\* 'passed' when it is call:passed and to 'failed' when it is call:failed
\* or setup:failed.
C3_SkippedNotTerminal ==
    (Delivered /\ Status(before, Id) = "skipped")
    => /\ (report.when = "call" /\ report.outcome = "passed")
            => Status(test_results, Id) = "passed"
       /\ (report.when \in {"call", "setup"} /\ report.outcome = "failed")
            => Status(test_results, Id) = "failed"

\* C3: setup:skipped followed by call:passed ended 'passed'.
C3_Witness ==
    /\ Delivered
    /\ Status(before, Id) = "skipped"
    /\ report.when = "call" /\ report.outcome = "passed"
    /\ Status(test_results, Id) = "passed"

\* C4 (as claimed): a call report for an identity that is not yet 'passed'
\* or 'failed' sets 'passed' on outcome passed, 'failed' on outcome failed
\* or error, and leaves the status alone on any other outcome.
C4_CallClaimed ==
    (/\ Delivered
     /\ report.when = "call" /\ report.outcome \in Outcomes
     /\ Status(before, Id) \notin {"passed", "failed"})
    => Status(test_results, Id) =
          IF report.outcome = "passed" THEN "passed"
          ELSE IF report.outcome \in {"failed", "error"} THEN "failed"
          ELSE Status(before, Id)

\* C5: a setup report for an identity that is not yet 'passed' or 'failed'
\* sets 'skipped' on outcome skipped, 'failed' on outcome failed, and
\* leaves the status alone on any other outcome.
C5_SetupEvent ==
    (/\ Delivered
     /\ report.when = "setup" /\ report.outcome \in Outcomes
     /\ Status(before, Id) \notin {"passed", "failed"})
    => Status(test_results, Id) =
          IF report.outcome = "skipped" THEN "skipped"
          ELSE IF report.outcome = "failed" THEN "failed"
          ELSE Status(before, Id)

\* C5: setup:passed arrived for a test that was skipped and left it skipped.
C5_Witness ==
    /\ Delivered
    /\ report.when = "setup" /\ report.outcome = "passed"
    /\ Status(before, Id) = "skipped"
    /\ Status(test_results, Id) = "skipped"

\* C6: a report whose phase is neither setup nor call changes the status of
\* no identity, whatever its outcome.
C6_OtherPhaseIgnored ==
    (Delivered /\ report.when \notin {"setup", "call"})
    => \A id \in Identities : Status(test_results, id) = Status(before, id)

\* C6: teardown:failed arrived for a test that was skipped and left it
\* skipped.
C6_Witness ==
    /\ Delivered
    /\ report.when = "teardown" /\ report.outcome = "failed"
    /\ Status(before, Id) = "skipped"
    /\ Status(test_results, Id) = "skipped"

\* C7: a report without a location leaves test_results as it was, is not
\* logged as an error and raises nothing.
C7_NoLocationNoOp ==
    (called = "logreport" /\ ~report.located)
    => (test_results = before /\ caught = "none" /\ ~raised)

\* C7: a report without a location arrived when records existed.
C7_Witness ==
    /\ called = "logreport" /\ ~report.located
    /\ Len(before) = 2
    /\ test_results = before

\* C8 (as claimed): a call in which a fault was caught raised nothing and
\* left test_results as it was.
C8_FaultDropsEvent ==
    (called = "logreport" /\ caught # "none")
    => (~raised /\ test_results = before)

----------------------------------------------------------------------------
\* Properties of the report builder

Range(list) == {list[i] : i \in 1..Len(list)}

NoRepeat(list) == \A i, j \in 1..Len(list) : list[i] = list[j] => i = j

\* C9: at the end of the run the total list holds exactly the identities
\* that have a record, and the passed, failed and skipped lists exactly
\* the identities with that status, each once.
C9_Partition ==
    session = "finished"
    => /\ Range(groups.total) = {id \in Identities : Known(test_results, id)}
       /\ NoRepeat(groups.total)
       /\ \A st \in {"passed", "failed", "skipped"} :
            /\ Range(groups[st]) =
                  {id \in Identities :
                      Known(test_results, id) /\ Status(test_results, id) = st}
            /\ NoRepeat(groups[st])

\* C9: a run ended with one test passed and one test without a status.
C9_Witness ==
    /\ session = "finished"
    /\ Len(groups.total) = 2
    /\ Len(groups.passed) = 1
    /\ \E i \in 1..2 : Status(test_results, groups.total[i]) = None

\* C10: at the end of the run the total list is as long as there are
\* distinct identities among the reports with a resolvable location.
C10_TotalCountsIdentities ==
    session = "finished" => Len(groups.total) = Cardinality(seen)

\* C10: three raw names, two of them with the same identity, were
\* reported; one identity has no status.
C10_Witness ==
    /\ session = "finished"
    /\ Cardinality(raw_seen) = 3
    /\ Len(groups.total) = 2
    /\ \E id \in seen : Status(test_results, id) = None

----------------------------------------------------------------------------
\* Properties of the exported registry

Categories == {"passed", "failed", "skipped"}

\* The name under which the gauge of a group is registered.
GaugeName(g) == TestIdentity(prefix, MetricNames[g])

\* The label sets of the series of the gauge of group g.
LabelSets(g) ==
    IF GaugeName(g) \in DOMAIN registry THEN DOMAIN registry[GaugeName(g)] ELSE {}

\* The series of the gauge of group g whose testname label is id.
SeriesOf(g, id) ==
    {l \in LabelSets(g) : TESTNAME \in DOMAIN l /\ l[TESTNAME] = id}

\* All series have the value 1.
AllOnes ==
    \A g \in DOMAIN MetricNames :
        \A l \in LabelSets(g) : registry[GaugeName(g)][l] = 1

\* At most one series of id over the three category gauges.
OneCategory(id) ==
    /\ \A g \in Categories : Cardinality(SeriesOf(g, id)) <= 1
    /\ \A g, h \in Categories : (SeriesOf(g, id) # {} /\ SeriesOf(h, id) # {}) => g = h

\* C11 (as claimed): in the pushed registry every identity with a record
\* has exactly one series in the total gauge and at most one over the three
\* category gauges, and every series has the value 1.
C11_Claimed ==
    pushes = 1
    => /\ \A id \in Identities :
            Known(test_results, id)
            => (Cardinality(SeriesOf("total", id)) = 1 /\ OneCategory(id))
       /\ AllOnes

\* C11 (amended): in the pushed registry every identity with a record has
\* at most one series in the total gauge, exactly one unless the
\* construction of that series raised and was skipped, and at most one
\* over the three category gauges; identities without a record have no
\* series; every series has the value 1.
C11_OneSeriesEach ==
    pushes = 1
    => /\ \A id \in Identities :
            /\ Known(test_results, id)
               => /\ Cardinality(SeriesOf("total", id)) =
                        IF <<"total", id>> \in series_errors THEN 0 ELSE 1
                  /\ OneCategory(id)
            /\ ~Known(test_results, id)
               => \A g \in DOMAIN MetricNames : SeriesOf(g, id) = {}
       /\ AllOnes

\* C11: a registry was pushed with two tests in the total gauge, one of
\* them also in the passed gauge and the other in the failed gauge.
C11_Witness ==
    /\ pushes = 1
    /\ series_errors = {}
    /\ \E id, other \in Identities :
        /\ id # other
        /\ Cardinality(SeriesOf("total", id)) = 1
        /\ Cardinality(SeriesOf("total", other)) = 1
        /\ Cardinality(SeriesOf("passed", id)) = 1
        /\ Cardinality(SeriesOf("failed", other)) = 1

\* C12: the label set of every series holds the key testname with the
\* identity of a test of the gauge's list as value, and besides it exactly
\* the configured extra labels with their configured values; an extra
\* label testname=x does not show.
C12_LabelSet ==
    \A g \in DOMAIN MetricNames :
        \A l \in LabelSets(g) :
            /\ DOMAIN l = (DOMAIN extra_labels) \cup {TESTNAME}
            /\ l[TESTNAME] \in Range(groups[g])
            /\ \A k \in (DOMAIN extra_labels) \ {TESTNAME} : l[k] = extra_labels[k]

\* C12: the run was given the extra labels e=c and testname=x, and a series
\* of the total gauge has e=c and the identity of a test as testname.
C12_Witness ==
    /\ pushes = 1
    /\ TESTNAME \in DOMAIN extra_labels
    /\ extra_labels[TESTNAME] = <<"x">>
    /\ \E id \in Identities :
        \E l \in SeriesOf("total", id) :
            /\ Known(test_results, id)
            /\ <<"e">> \in DOMAIN l
            /\ l[<<"e">>] = <<"c">>

C14_PushedOnce ==
    /\ session = "running" => pushes = 0
    /\ session = "finished" => pushes = 1

\* C15: once pytest_sessionfinish has run, no exception has left it,
\* whether the construction of a gauge or the push failed, and
\* push_to_gateway was called at most once.
C15_NeverRaises ==
    called = "sessionfinish"
    => /\ ~raised
       /\ pushes <= 1
       /\ GaugeRaises(get_label_names(extra_labels)) => (caught = "ValueError" /\ pushes = 0)

\* C15: the push failed; the fault was caught, after one attempt.
C15_Witness ==
    /\ called = "sessionfinish"
    /\ caught = "OSError"
    /\ pushes = 1
    /\ ~raised

----------------------------------------------------------------------------
\* Properties of the extra labels

\* The tokens the reporter was constructed from.
GivenTokens == IF options.extra_label.given THEN options.extra_label.value ELSE <<>>

\* The positions of the tokens that contain '='.
Keyed == {i \in 1..Len(GivenTokens) : \E n \in 1..Len(GivenTokens[i]) : GivenTokens[i][n] = "="}

\* The position of the first '=' of a token that has one.
EqAt(t) == CHOOSE n \in 1..Len(t) : t[n] = "=" /\ \A m \in 1..(n - 1) : t[m] # "="

KeyOf(t) == SubSeq(t, 1, EqAt(t) - 1)

ValueOf(t) == SubSeq(t, EqAt(t) + 1, Len(t))

\* C16: after the reporter was constructed, the keys of the label mapping
\* are the parts before the first '=' of the tokens that contain '=', each
\* key has the part after the first '=' of the last token with that key,
\* tokens without '=' add nothing, nothing was raised, and with no token
\* the mapping is empty.
C16_LabelTokens ==
    (called = "configure" /\ registered)
    => /\ ~raised
       /\ DOMAIN extra_labels = {KeyOf(GivenTokens[i]) : i \in Keyed}
       /\ \A i \in Keyed :
            (\A j \in Keyed : j > i => KeyOf(GivenTokens[j]) # KeyOf(GivenTokens[i]))
            => extra_labels[KeyOf(GivenTokens[i])] = ValueOf(GivenTokens[i])
       /\ ~options.extra_label.given => DOMAIN extra_labels = {}

\* C16: of two tokens with the key e the later one is kept.
C16_Witness ==
    /\ called = "configure"
    /\ registered
    /\ GivenTokens = << <<"e", "=", "c">>, <<"e", "=", "d">> >>
    /\ DOMAIN extra_labels = {<<"e">>}
    /\ extra_labels[<<"e">>] = <<"d">>

----------------------------------------------------------------------------
\* Properties of the metric names

\* The characters of the class [A-Za-z0-9_].
InClass ==
    { "a", "b", "c", "d", "e", "f", "g", "h", "i", "j", "k", "l", "m",
      "n", "o", "p", "q", "r", "s", "t", "u", "v", "w", "x", "y", "z",
      "A", "B", "C", "D", "E", "F", "G", "H", "I", "J", "K", "L", "M",
      "N", "O", "P", "Q", "R", "S", "T", "U", "V", "W", "X", "Y", "Z",
      "0", "1", "2", "3", "4", "5", "6", "7", "8", "9", "_"}

\* The name before sanitization: f'{self.prefix}{name}'.
Unsanitized == prefix \o arg

\* C17: _make_metric_name returns a string as long as prefix+name, with
\* '_' at the positions of the characters outside [A-Za-z0-9_] and the
\* character of prefix+name at every other position; the result has only
\* characters of the class and is returned unchanged when sanitized again;
\* prefix 'my.metric-' with name 'total' gives 'my_metric_total'.
C17_Sanitized ==
    called = "make_metric_name"
    => /\ Len(made) = Len(prefix) + Len(arg)
       /\ DOMAIN made = 1..(Len(prefix) + Len(arg))
       /\ \A i \in DOMAIN made :
            /\ made[i] \in InClass
            /\ made[i] = IF Unsanitized[i] \in InClass THEN Unsanitized[i] ELSE "_"
       /\ make_metric_name(<<>>, made) = made
       /\ (prefix = MY_METRIC /\ arg = MetricNames.total)
          => made = <<"m", "y", "_", "m", "e", "t", "r", "i", "c", "_",
                      "t", "o", "t", "a", "l">>

\* C17: the example of the specification was computed.
C17_Witness ==
    /\ called = "make_metric_name"
    /\ prefix = <<"m", "y", ".", "m", "e", "t", "r", "i", "c", "-">>
    /\ arg = <<"t", "o", "t", "a", "l">>
    /\ made = <<"m", "y", "_", "m", "e", "t", "r", "i", "c", "_",
                "t", "o", "t", "a", "l">>

----------------------------------------------------------------------------
\* Properties of the plugin lifecycle

\* The option was given a non-empty value.
IsSet(o) == o.given /\ Len(o.value) > 0

\* No reporter exists and none has done anything.
NothingReported ==
    /\ ~registered
    /\ ~config_prometheus
    /\ test_results = <<>>
    /\ registry = <<>>
    /\ pushes = 0
    /\ called \notin {"logreport", "sessionfinish"}

\* C18: without a pushgateway URL, unset or empty, no reporter is ever
\* registered, no event is recorded and nothing is pushed, whatever the
\* other options are.
C18_NoUrlDisabled == ~IsSet(options.url) => NothingReported

\* C18: a run with a prefix and no URL has ended and was unconfigured.
C18_Witness ==
    /\ ~options.url.given
    /\ IsSet(options.prefix)
    /\ session = "finished"
    /\ lifecycle = "unconfigured"
    /\ test_results = <<>>
    /\ pushes = 0

\* C19: before pytest_configure nothing is registered; from pytest_configure
\* to pytest_unconfigure a reporter is registered, and config._prometheus
\* set, exactly when both the URL and the prefix are non-empty; after
\* pytest_unconfigure neither is; and a run that registered nothing (a URL
\* without a prefix included) went through both hooks without any effect.
C19_Lifecycle ==
    /\ lifecycle = "initial" => NothingReported
    /\ lifecycle = "configured"
       => /\ registered <=> (IsSet(options.url) /\ IsSet(options.prefix))
          /\ config_prometheus <=> registered
    /\ lifecycle = "unconfigured" => (~registered /\ ~config_prometheus)
    /\ ~(IsSet(options.url) /\ IsSet(options.prefix)) => NothingReported

\* C19: a reporter was registered, pushed its registry and was removed by
\* pytest_unconfigure.
C19_Witness ==
    /\ lifecycle = "unconfigured"
    /\ called = "unconfigure"
    /\ IsSet(options.url)
    /\ IsSet(options.prefix)
    /\ pushes = 1
    /\ ~registered
    /\ ~config_prometheus

----------------------------------------------------------------------------
\* Frame of the record mapping

\* The record of an identity that has one.
RecordOf(results, id) == results[CHOOSE i \in 1..Len(results) : results[i].name = id]

\* The identity has no record in either mapping, or the same record in both.
SameRecord(old, new, id) ==
    /\ Known(new, id) <=> Known(old, id)
    /\ Known(old, id) /\ Known(new, id) => RecordOf(new, id) = RecordOf(old, id)

\* The report names the identity.
IsAbout(rep, id) ==
    /\ rep.located
    /\ rep.indexable
    /\ TestIdentity(prefix, rep.funcname) = id

\* C20: in every step, no record is removed and no status goes back to None;
\* a step that records an event leaves the record of every identity other
\* than the event's own as it was (absent or unchanged); and finalization
\* leaves the whole mapping as it was.
C20_Frame ==
    [][/\ \A id \in Identities :
            /\ Known(test_results, id) => Known(test_results', id)
            /\ Status(test_results, id) # None => Status(test_results', id) # None
       /\ called' = "logreport"
          => \A b \in Identities :
                ~IsAbout(report', b) => SameRecord(test_results, test_results', b)
       /\ called' = "sessionfinish" => test_results' = test_results]_vars

\* C20: an event created the record of its identity while another identity
\* had a record with a status, which is still the same.
C20_Witness ==
    /\ Delivered
    /\ ~Known(before, Id)
    /\ Known(test_results, Id)
    /\ \E b \in Identities \ {Id} :
          /\ Known(before, b)
          /\ Status(before, b) # None
          /\ SameRecord(before, test_results, b)

====
